---- MODULE Spec2Model ----
(***************************************************************************)
(* A model of python_utils: the boolean log-query engine                   *)
(* (log_query/log_querier.py: tokenizer, recursive evaluator, query        *)
(* facade) and the retry decorator (retry/retry.py).                       *)
(*                                                                         *)
(* A Python str is a sequence of one-character strings; a list is a        *)
(* sequence.  Positions of the evaluator are 0-based as in the code, so    *)
(* the token at position pos is tokens[pos + 1].                           *)
(***************************************************************************)
EXTENDS Integers, Sequences, FiniteSets, TLC

VARIABLES
    self_logs,  \* LogQuerier.logs: the list object handed to __init__
    pc,         \* where the modelled call stands
    args,       \* the arguments of the call in progress (or just finished)
    ret,        \* what the call returned
    exc,        \* the exception that left the call ("none" when it returned)
    attempts,   \* retry: the wrapper's local counter of attempts
    trace       \* retry: the invocations of func and the sleeps so far, in order

vars == <<self_logs, pc, args, ret, exc, attempts, trace>>

\* The retry wrapper's own state, untouched by the LogQuerier.
retryVars == <<attempts, trace>>

\* ------------------------------------------------------------------ bounds

\* Longest query string handed to _tokenize.
MaxQueryLen == 4
\* Longest query string, beside the named examples, handed to query().
MaxFacadeQueryLen == 3
\* Longest arbitrary token sequence handed to _evaluate_tokens.
MaxTokens == 4
\* Longest well-formed sentence of the grammar handed to _evaluate_tokens.
MaxSentence == 7
\* Largest max_attempts given to retry().
MaxAttempts == 3
\* Largest limit passed to query().
MaxLimit == 3

\* ----------------------------------------------------------------- strings

\* Sequences over S of length at most n.
SeqsUpTo(S, n) == UNION {[1..k -> S] : k \in 0..n}

Min(a, b) == IF a < b THEN a ELSE b
Max(a, b) == IF a > b THEN a ELSE b

\* needle in hay (str.__contains__): the empty string is in every string.
Contains(needle, hay) ==
    \E i \in 0..(Len(hay) - Len(needle)) :
        SubSeq(hay, i + 1, i + Len(needle)) = needle

\* str.find, 1-based; 0 when sep does not occur in s.
Find(s, sep) ==
    LET hits == {i \in 1..(Len(s) - Len(sep) + 1) :
                    SubSeq(s, i, i + Len(sep) - 1) = sep}
    IN  IF hits = {} THEN 0 ELSE CHOOSE i \in hits : \A j \in hits : i <= j

\* str.split(sep): the pieces between the non-overlapping occurrences of sep,
\* found left to right.
RECURSIVE Split(_, _)
Split(s, sep) ==
    LET i == Find(s, sep)
    IN  IF i = 0 THEN <<s>>
        ELSE <<SubSeq(s, 1, i - 1)>> \o Split(SubSeq(s, i + Len(sep), Len(s)), sep)

\* sep.join(pieces)
RECURSIVE Join(_, _)
Join(sep, pieces) ==
    IF pieces = <<>> THEN <<>>
    ELSE IF Len(pieces) = 1 THEN pieces[1]
    ELSE pieces[1] \o sep \o Join(sep, Tail(pieces))

\* str.replace(old, new) for a non-empty old.
Replace(s, old, new) == Join(new, Split(s, old))

IsSpace(c) == c \in {" ", "\t", "\n"}

\* str.strip(): leading and trailing whitespace removed.
Strip(s) ==
    LET keep == {i \in 1..Len(s) : ~IsSpace(s[i])}
    IN  IF keep = {} THEN <<>>
        ELSE SubSeq(s, CHOOSE i \in keep : \A j \in keep : i <= j,
                       CHOOSE i \in keep : \A j \in keep : i >= j)

UpperLetters ==
    <<"A", "B", "C", "D", "E", "F", "G", "H", "I", "J", "K", "L", "M", "N", "O",
     "P", "Q", "R", "S", "T", "U", "V", "W", "X", "Y", "Z">>
LowerLetters ==
    <<"a", "b", "c", "d", "e", "f", "g", "h", "i", "j", "k", "l", "m", "n", "o",
     "p", "q", "r", "s", "t", "u", "v", "w", "x", "y", "z">>

LowerChar(c) ==
    IF \E i \in 1..Len(UpperLetters) : UpperLetters[i] = c
    THEN LowerLetters[CHOOSE i \in 1..Len(UpperLetters) : UpperLetters[i] = c]
    ELSE c

\* str.lower() on ASCII text.
Lower(s) == [i \in 1..Len(s) |-> LowerChar(s[i])]

\* list.reverse() / reversed order of a sequence.
Reverse(s) == [i \in 1..Len(s) |-> s[Len(s) + 1 - i]]

\* ---------------------------------------------------------- configuration

\* OPERATION_DICT: the regex-escaped operator literals, in dictionary order.
OperationNames == <<"AND", "OR", "NOT", "LEFT_PARENTHESIS", "RIGHT_PARENTHESIS">>

OPERATION_DICT ==
    [AND               |-> <<"\\", "&", "\\", "&">>,
     OR                |-> <<"\\", "|", "\\", "|">>,
     NOT               |-> <<"\\", "!", "\\", "!">>,
     LEFT_PARENTHESIS  |-> <<"\\", "(", "\\", "(">>,
     RIGHT_PARENTHESIS |-> <<"\\", ")", "\\", ")">>]

QUOTE_STRING == <<"\"", "\"">>

\* value.replace('\\', '')
Unescape(value) == Replace(value, <<"\\">>, <<>>)

\* self.operationo_dict: the operator literals as they appear in a query.
operationo_dict == [k \in DOMAIN OPERATION_DICT |-> Unescape(OPERATION_DICT[k])]

INVALID_EVAL_OPERATION_SET ==
    {Unescape(item) : item \in {OPERATION_DICT.AND, OPERATION_DICT.OR,
                                OPERATION_DICT.RIGHT_PARENTHESIS}}

\* The text an escaped regex literal matches: each \c matches the character c.
RECURSIVE RegexLiteral(_)
RegexLiteral(p) ==
    IF p = <<>> THEN <<>>
    ELSE IF Head(p) = "\\" /\ Len(p) >= 2
         THEN <<p[2]>> \o RegexLiteral(SubSeq(p, 3, Len(p)))
         ELSE <<Head(p)>> \o RegexLiteral(Tail(p))

\* self.pattern: the alternation of the five escaped literals, in order.
pattern == [k \in 1..Len(OperationNames) |-> RegexLiteral(OPERATION_DICT[OperationNames[k]])]

\* --------------------------------------------------------------- tokenizer

\* The first alternative of the pattern matching the query at 1-based index i
\* (0 when none does).
MatchAt(query, i) ==
    LET ok == {k \in 1..Len(pattern) :
                  /\ i + Len(pattern[k]) - 1 <= Len(query)
                  /\ SubSeq(query, i, i + Len(pattern[k]) - 1) = pattern[k]}
    IN  IF ok = {} THEN 0 ELSE CHOOSE k \in ok : \A j \in ok : k <= j

\* re.findall(self.pattern, query) from index i on: the non-overlapping matches,
\* leftmost first.
RECURSIVE findall(_, _)
findall(query, i) ==
    IF i > Len(query) THEN <<>>
    ELSE LET k == MatchAt(query, i)
         IN  IF k = 0 THEN findall(query, i + 1)
             ELSE <<pattern[k]>> \o findall(query, i + Len(pattern[k]))

\* The loop "for operation in operations" of _tokenize and the append after it.
RECURSIVE tokenize_loop(_, _, _)
tokenize_loop(operations, current_query, toks) ==
    IF operations = <<>>
    THEN IF current_query # <<>> THEN Append(toks, current_query) ELSE toks
    ELSE LET operation   == Head(operations)
             sub_strings == Split(current_query, operation)
             before      == IF sub_strings[1] # <<>>
                            THEN Append(toks, sub_strings[1]) ELSE toks
         IN  tokenize_loop(Tail(operations),
                           Join(operation, Tail(sub_strings)),
                           Append(before, operation))

parse_quoted_token(token) == Replace(Strip(token), QUOTE_STRING, <<>>)

\* LogQuerier._tokenize
tokenize(query) ==
    LET raw    == tokenize_loop(findall(query, 1), query, <<>>)
        parsed == [i \in 1..Len(raw) |-> parse_quoted_token(raw[i])]
    IN  SelectSeq(parsed, LAMBDA t : t # <<>>)

\* --------------------------------------------------------------- evaluator

\* What one of the nested functions hands back: the pair (result, next_pos)
\* it returns, or the Exception of line 137 on its way out.
Returned(result, next_pos) ==
    [result |-> result, next_pos |-> next_pos, raised |-> FALSE]

InvalidToken(pos) == [result |-> FALSE, next_pos |-> pos, raised |-> TRUE]

\* The value test of line 143.
operand_in_log(token, log, enable_case_insensitive) ==
    IF enable_case_insensitive
    THEN Contains(Lower(token), Lower(log))
    ELSE Contains(token, log)

RECURSIVE eval_next(_, _, _, _)
RECURSIVE eval_and(_, _, _, _)
RECURSIVE eval_or(_, _, _, _)
RECURSIVE and_loop(_, _, _, _, _)
RECURSIVE or_loop(_, _, _, _, _)

\* Mutant of after_group: the right parenthesis is not skipped.
after_group_no_skip(r) ==
    IF r.raised THEN r ELSE Returned(r.result, r.next_pos)

\* Line 124: "return result, next_pos + 1" with r what eval_or handed back.
after_group(r) ==
    IF r.raised THEN r ELSE Returned(r.result, r.next_pos + 1)

\* Line 132: "return not result, next_pos" with r what eval_next handed back.
after_not(r) ==
    IF r.raised THEN r ELSE Returned(~r.result, r.next_pos)

\* Mutant of eval_next: with no token left it raises instead of returning
\* (False, pos).
eval_next_exhausted_raises(toks, log, ci, pos) ==
    IF pos < Len(toks)
    THEN IF toks[pos + 1] = operationo_dict.LEFT_PARENTHESIS
         THEN after_group(eval_or(toks, log, ci, pos + 1))
         ELSE IF toks[pos + 1] = operationo_dict.NOT
         THEN after_not(eval_next(toks, log, ci, pos + 1))
         ELSE IF toks[pos + 1] \in INVALID_EVAL_OPERATION_SET
         THEN InvalidToken(pos)
         ELSE Returned(operand_in_log(toks[pos + 1], log, ci), pos + 1)
    ELSE InvalidToken(pos)

\* Mutant of eval_next: the branch of lines 136-138 is missing, so a misplaced
\* operator is tested as an operand.
eval_next_no_invalid_check(toks, log, ci, pos) ==
    IF pos < Len(toks)
    THEN IF toks[pos + 1] = operationo_dict.LEFT_PARENTHESIS
         THEN after_group(eval_or(toks, log, ci, pos + 1))
         ELSE IF toks[pos + 1] = operationo_dict.NOT
         THEN after_not(eval_next(toks, log, ci, pos + 1))
         ELSE Returned(operand_in_log(toks[pos + 1], log, ci), pos + 1)
    ELSE Returned(FALSE, pos)

eval_next(toks, log, ci, pos) ==
    IF pos < Len(toks)
    THEN IF toks[pos + 1] = operationo_dict.LEFT_PARENTHESIS
         THEN after_group(eval_or(toks, log, ci, pos + 1))
         ELSE IF toks[pos + 1] = operationo_dict.NOT
         THEN after_not(eval_next(toks, log, ci, pos + 1))
         ELSE IF toks[pos + 1] \in INVALID_EVAL_OPERATION_SET
         THEN InvalidToken(pos)
         ELSE Returned(operand_in_log(toks[pos + 1], log, ci), pos + 1)
    ELSE Returned(FALSE, pos)

\* Line 160: "result = result and next_result", and the loop goes on.
and_step(toks, log, ci, result, r) ==
    IF r.raised THEN r
    ELSE and_loop(toks, log, ci, result /\ r.result, r.next_pos)

\* The while loop of eval_and, entered with (result, next_pos).
and_loop(toks, log, ci, result, next_pos) ==
    IF next_pos < Len(toks) /\ toks[next_pos + 1] = operationo_dict.AND
    THEN and_step(toks, log, ci, result, eval_next(toks, log, ci, next_pos + 1))
    ELSE Returned(result, next_pos)

\* Line 152 on: the loop starts from what the first eval_next handed back.
and_start(toks, log, ci, r) ==
    IF r.raised THEN r ELSE and_loop(toks, log, ci, r.result, r.next_pos)

eval_and(toks, log, ci, pos) ==
    and_start(toks, log, ci, eval_next(toks, log, ci, pos))

\* Line 176: "result = result or next_result", and the loop goes on.
or_step(toks, log, ci, result, r) ==
    IF r.raised THEN r
    ELSE or_loop(toks, log, ci, result \/ r.result, r.next_pos)

\* The while loop of eval_or, entered with (result, next_pos).
or_loop(toks, log, ci, result, next_pos) ==
    IF next_pos < Len(toks) /\ toks[next_pos + 1] = operationo_dict.OR
    THEN or_step(toks, log, ci, result, eval_and(toks, log, ci, next_pos + 1))
    ELSE Returned(result, next_pos)

\* Line 168 on: the loop starts from what the first eval_and handed back.
or_start(toks, log, ci, r) ==
    IF r.raised THEN r ELSE or_loop(toks, log, ci, r.result, r.next_pos)

eval_or(toks, log, ci, pos) ==
    or_start(toks, log, ci, eval_and(toks, log, ci, pos))

\* LogQuerier._evaluate_tokens: eval_or(pos), of which the caller sees [0].
evaluate_tokens(toks, log, pos, ci) == eval_or(toks, log, ci, pos)

\* The indices at which the nested functions subscript tokens during one
\* evaluation: tokens[pos] of line 115 and tokens[next_pos] of lines 155 and
\* 171, each read only when the test before it lets it.
RECURSIVE reads_next(_, _, _, _)
RECURSIVE reads_and(_, _, _, _)
RECURSIVE reads_or(_, _, _, _)
RECURSIVE reads_and_loop(_, _, _, _)
RECURSIVE reads_or_loop(_, _, _, _)

\* eval_next(pos): line 114 guards the read of line 115.
reads_next(toks, log, ci, pos) ==
    IF pos < Len(toks)
    THEN {pos} \cup
         (IF toks[pos + 1] = operationo_dict.LEFT_PARENTHESIS
          THEN reads_or(toks, log, ci, pos + 1)
          ELSE IF toks[pos + 1] = operationo_dict.NOT
          THEN reads_next(toks, log, ci, pos + 1)
          ELSE {})
    ELSE {}

\* Mutant of reads_and_loop: the while condition of line 155 tests
\* next_pos != len(tokens) instead of next_pos < len(tokens).
reads_and_loop_not_equal(toks, log, ci, r) ==
    IF r.raised THEN {}
    ELSE IF r.next_pos # Len(toks)
    THEN {r.next_pos} \cup
         (IF r.next_pos < Len(toks) /\ toks[r.next_pos + 1] = operationo_dict.AND
          THEN reads_next(toks, log, ci, r.next_pos + 1)
                   \cup reads_and_loop(toks, log, ci,
                                       eval_next(toks, log, ci, r.next_pos + 1))
          ELSE {})
    ELSE {}

\* The while loop of eval_and after an eval_next that handed back r: the
\* condition of line 155 reads tokens[next_pos] only when next_pos < len(tokens).
reads_and_loop(toks, log, ci, r) ==
    IF r.raised THEN {}
    ELSE IF r.next_pos < Len(toks)
    THEN {r.next_pos} \cup
         (IF toks[r.next_pos + 1] = operationo_dict.AND
          THEN reads_next(toks, log, ci, r.next_pos + 1)
                   \cup reads_and_loop(toks, log, ci,
                                       eval_next(toks, log, ci, r.next_pos + 1))
          ELSE {})
    ELSE {}

reads_and(toks, log, ci, pos) ==
    reads_next(toks, log, ci, pos)
        \cup reads_and_loop(toks, log, ci, eval_next(toks, log, ci, pos))

\* The while loop of eval_or after an eval_and that handed back r (line 171).
reads_or_loop(toks, log, ci, r) ==
    IF r.raised THEN {}
    ELSE IF r.next_pos < Len(toks)
    THEN {r.next_pos} \cup
         (IF toks[r.next_pos + 1] = operationo_dict.OR
          THEN reads_and(toks, log, ci, r.next_pos + 1)
                   \cup reads_or_loop(toks, log, ci,
                                      eval_and(toks, log, ci, r.next_pos + 1))
          ELSE {})
    ELSE {}

reads_or(toks, log, ci, pos) ==
    reads_and(toks, log, ci, pos)
        \cup reads_or_loop(toks, log, ci, eval_and(toks, log, ci, pos))

\* ------------------------------------------------------------ query facade

\* Optional[int]: None, or the one-element <<n>>.
None == <<>>
Some(n) == <<n>>
\* "if limit:" -- None and 0 are falsy.
Truthy(limit) == limit # None /\ limit[1] # 0

\* A reference to a list: its items, and whether the object is self.logs itself
\* (is_self) or a list of its own.
ListRef(items, is_self) == [items |-> items, is_self |-> is_self]

\* The comprehension of lines 202-203: a new list, or the evaluator's exception
\* raised at the first line.
RECURSIVE filter_logs(_, _, _)

\* The line is kept when the evaluator returned True for it.
keep_if(log, r, rest) ==
    IF r.raised THEN [raised |-> TRUE, items |-> <<>>]
    ELSE IF rest.raised THEN rest
    ELSE [raised |-> FALSE,
          items  |-> IF r.result THEN <<log>> \o rest.items ELSE rest.items]

filter_logs(corpus, toks, ci) ==
    IF corpus = <<>> THEN [raised |-> FALSE, items |-> <<>>]
    ELSE keep_if(Head(corpus),
                 evaluate_tokens(toks, Head(corpus), 0, ci),
                 filter_logs(Tail(corpus), toks, ci))

\* Mutant of slice_tail: logs[-limit + 1:], one line short (all lines for
\* limit = 1, as Python's logs[0:]).
slice_tail_off_by_one(logs, limit) ==
    ListRef(SubSeq(logs.items,
                   IF limit = 1 THEN 1
                   ELSE Max(Len(logs.items) - limit + 1, 0) + 1,
                   Len(logs.items)),
            FALSE)

\* logs[-limit:] for limit > 0: a new list.
slice_tail(logs, limit) ==
    ListRef(SubSeq(logs.items, Max(Len(logs.items) - limit, 0) + 1, Len(logs.items)),
            FALSE)

\* Mutant of slice_head: the leading slice taken from the tail.
slice_head_from_tail(logs, limit) ==
    ListRef(SubSeq(logs.items, Max(Len(logs.items) - limit, 0) + 1, Len(logs.items)),
            FALSE)

\* logs[:limit] for limit > 0: a new list.
slice_head(logs, limit) ==
    ListRef(SubSeq(logs.items, 1, Min(limit, Len(logs.items))), FALSE)

\* logs.reverse(): in place, so it reaches self.logs when logs is that object.
\* Gives the corpus and the list after the call.
reverse_in_place(corpus, logs) ==
    [corpus |-> IF logs.is_self THEN Reverse(corpus) ELSE corpus,
     logs   |-> ListRef(Reverse(logs.items), logs.is_self)]

\* Mutant of apply_limit: "logs.reverse()" before the slice is taken, so the list
\* reversed is the one the filter step produced.
apply_limit_reverse_first(corpus, logs, limit, ordering) ==
    IF Truthy(limit)
    THEN IF ordering = "asc"
         THEN [corpus |-> corpus, logs |-> slice_tail(logs, limit[1])]
         ELSE [corpus |-> reverse_in_place(corpus, logs).corpus,
               logs   |-> slice_head(reverse_in_place(corpus, logs).logs, limit[1])]
    ELSE [corpus |-> corpus, logs |-> logs]

\* Lines 207-216, entered with the list "logs".
apply_limit(corpus, logs, limit, ordering) ==
    IF Truthy(limit)
    THEN IF ordering = "asc"
         THEN [corpus |-> corpus, logs |-> slice_tail(logs, limit[1])]
         ELSE reverse_in_place(corpus, slice_head(logs, limit[1]))
    ELSE [corpus |-> corpus, logs |-> logs]

\* LogQuerier.query on the corpus: the exception or the returned list, and
\* self.logs after the call.
query_filter(corpus, toks, ci) ==
    IF toks # <<>> THEN filter_logs(corpus, toks, ci)
    ELSE [raised |-> FALSE, items |-> corpus]

query_return(corpus, toks, filtered, limit, ordering) ==
    IF filtered.raised
    THEN [raised |-> TRUE, corpus |-> corpus, logs |-> ListRef(<<>>, FALSE)]
    ELSE [raised |-> FALSE] @@
         apply_limit(corpus, ListRef(filtered.items, toks = <<>>), limit, ordering)

query_tokens(corpus, toks, limit, ordering, ci) ==
    query_return(corpus, toks, query_filter(corpus, toks, ci), limit, ordering)

query(corpus, q, limit, ordering, ci) ==
    query_tokens(corpus, IF q # <<>> THEN tokenize(q) ELSE <<>>,
                 limit, ordering, ci)

\* ------------------------------------------------------------------ inputs

QueryAlphabet == {"a", "A", " ", "&", "|", "!", "(", ")", "\""}

LineErrorDiskFull    == <<"e", "r", "r", "o", "r", ":", " ", "d", "i", "s", "k", " ", "f", "u", "l", "l">>
LineInfoOk           == <<"i", "n", "f", "o", ":", " ", "o", "k">>
LineWarnDiskSlow     == <<"w", "a", "r", "n", ":", " ", "d", "i", "s", "k", " ", "s", "l", "o", "w">>
LineErrorNetworkDown == <<"e", "r", "r", "o", "r", ":", " ", "n", "e", "t", "w", "o", "r", "k", " ", "d", "o", "w", "n">>

\* The corpus of the documented scenario.
ScenarioCorpus ==
    <<LineErrorDiskFull, LineInfoOk, LineWarnDiskSlow, LineErrorNetworkDown>>

\* Short lines that tell the operands, their case and the operator characters
\* apart; one line occurs twice.
SmallCorpus ==
    <<<<"a">>, <<"A", " ", "b">>, <<"b", "&", "&", "a">>, <<"a">>, <<>>, <<"b", "a", " ", "!", "!">>>>

Corpora == {ScenarioCorpus, SmallCorpus, <<>>}

QueryError          == <<"e", "r", "r", "o", "r">>
QueryErrorAndDisk   == <<"e", "r", "r", "o", "r", " ", "&", "&", " ", "d", "i", "s", "k">>
QueryNotError       == <<"!", "!", "e", "r", "r", "o", "r">>
QueryErrorOrWarn    == <<"e", "r", "r", "o", "r", " ", "|", "|", " ", "w", "a", "r", "n">>
QueryUpperError     == <<"E", "R", "R", "O", "R">>
QueryTrailingAnd    == <<"a", " ", "&", "&">>
QueryTrailingOr     == <<"a", " ", "|", "|">>
QueryLeadingAnd     == <<"&", "&", " ", "a">>
QueryAndOr          == <<"a", " ", "&", "&", " ", "|", "|", " ", "b">>
QueryEmptyParens    == <<"(", "(", " ", ")", ")">>
QueryQuotedAnd      == <<"&", "\"", "\"", "&">>
QueryStrayRight     == <<"a", " ", ")", ")">>
QueryStrayRightAndB == <<"a", " ", ")", ")", " ", "&", "&", " ", "b">>

ExampleQueries ==
    {QueryError, QueryErrorAndDisk, QueryNotError, QueryErrorOrWarn,
     QueryUpperError, QueryTrailingAnd, QueryTrailingOr, QueryLeadingAnd,
     QueryAndOr, QueryEmptyParens, QueryQuotedAnd, QueryStrayRight,
     QueryStrayRightAndB}

\* The characters of the short queries query() is called with: an operand in
\* both cases, whitespace, the quote character and three operator characters.
FacadeAlphabet == {"a", "A", " ", "&", "|", ")", "\""}

\* The query strings query() is called with.
FacadeQueries == SeqsUpTo(FacadeAlphabet, MaxFacadeQueryLen) \cup ExampleQueries

Limits == {None} \cup {Some(n) : n \in 0..MaxLimit}

Orderings == {"asc", "desc"}

NoValue == <<>>

\* ---------------------------------------------------- LogQuerier.query calls

Init ==
    /\ self_logs \in Corpora
    /\ pc = "idle"
    /\ args = NoValue
    /\ ret = NoValue
    /\ exc = "none"
    /\ attempts = 0
    /\ trace = <<>>

\* How a call of query() ends: self.logs after it, and the list it returned or
\* the exception that left it.
QueryOutcome(out) ==
    /\ self_logs' = out.corpus
    /\ ret' = IF out.raised THEN NoValue ELSE out.logs
    /\ exc' = IF out.raised THEN "Exception" ELSE "none"
    /\ pc' = IF out.raised THEN "raised" ELSE "returned"

\* One call of query(): the whole method, ending in a return or an exception.
Query ==
    /\ pc = "idle"
    /\ \E q \in FacadeQueries, limit \in Limits, ordering \in Orderings,
          ci \in BOOLEAN :
          /\ args' = [query |-> q, limit |-> limit, ordering |-> ordering,
                      enable_case_insensitive |-> ci, before |-> self_logs]
          /\ QueryOutcome(query(self_logs, q, limit, ordering, ci))
    /\ UNCHANGED retryVars

\* The caller is done with the result and may call again.
Release ==
    /\ pc \in {"returned", "raised"}
    /\ pc' = "idle"
    /\ args' = NoValue
    /\ ret' = NoValue
    /\ exc' = "none"
    /\ UNCHANGED <<self_logs, retryVars>>

Next == Query \/ Release

Spec == Init /\ [][Next]_vars

\* ---------------------------------------------------- LogQuerier._tokenize calls

TokenizerQueries == SeqsUpTo(QueryAlphabet, MaxQueryLen) \cup ExampleQueries

InitTokenize ==
    /\ self_logs = <<>>
    /\ pc = "start"
    /\ args \in {[query |-> q] : q \in TokenizerQueries}
    /\ ret = NoValue
    /\ exc = "none"
    /\ attempts = 0
    /\ trace = <<>>

\* One call of _tokenize(query).
Tokenize ==
    /\ pc = "start"
    /\ ret' = tokenize(args.query)
    /\ pc' = "done"
    /\ UNCHANGED <<self_logs, args, exc, retryVars>>

SpecTokenize == InitTokenize /\ [][Tokenize]_vars

\* --------------------------------------------- LogQuerier._evaluate_tokens calls

OperandTokens == {<<"a">>, <<"B">>}

OperatorTokens == {operationo_dict[k] : k \in DOMAIN operationo_dict}

TokenAlphabet == OperatorTokens \cup OperandTokens

\* Lines holding each combination of the operands, and one that differs from an
\* operand by case only.
EvalLines == {<<>>, <<"a">>, <<"B">>, <<"a", "B">>, <<"b">>}

\* Where an evaluation starts: position 0 as query() passes it, the end of the
\* sequence, and one past its end.
StartPositions(toks) == {0, Len(toks), Len(toks) + 1}

NoExpr == <<"none">>

EvalArgs(toks, log, pos, ci, expr) ==
    [tokens |-> toks, log |-> log, pos |-> pos,
     enable_case_insensitive |-> ci, expr |-> expr]

InitEvaluate ==
    /\ self_logs = <<>>
    /\ pc = "start"
    /\ \E toks \in SeqsUpTo(TokenAlphabet, MaxTokens), log \in EvalLines,
          ci \in BOOLEAN :
          \E pos \in StartPositions(toks) :
              args = EvalArgs(toks, log, pos, ci, NoExpr)
    /\ ret = NoValue
    /\ exc = "none"
    /\ attempts = 0
    /\ trace = <<>>

\* How a call of _evaluate_tokens ends: its boolean (with the position eval_or
\* reached), or the exception.
EvaluateOutcome(r) ==
    /\ ret' = IF r.raised THEN NoValue ELSE [result |-> r.result, next_pos |-> r.next_pos]
    /\ exc' = IF r.raised THEN "Exception" ELSE "none"
    /\ pc' = IF r.raised THEN "raised" ELSE "returned"

\* One call of _evaluate_tokens(tokens, log, pos, enable_case_insensitive).
Evaluate ==
    /\ pc = "start"
    /\ EvaluateOutcome(evaluate_tokens(args.tokens, args.log, args.pos,
                                       args.enable_case_insensitive))
    /\ UNCHANGED <<self_logs, args, retryVars>>

SpecEvaluate == InitEvaluate /\ [][Evaluate]_vars

\* ------------------------------ _evaluate_tokens on sentences of the grammar

\* The expression a sentence stands for.
Operand(t) == <<"operand", t>>
Not(e)     == <<"not", e>>
And(l, r)  == <<"and", l, r>>
Or(l, r)   == <<"or", l, r>>

Sentence(toks, expr) == [tokens |-> toks, expr |-> expr]

\* The sentences of exactly n tokens, with the expression each stands for:
\*   unary := operand | NOT unary | (( or-expression ))
\*   and-expression := unary | and-expression AND unary
\*   or-expression  := and-expression | or-expression OR and-expression
RECURSIVE UnarySentences(_)
RECURSIVE AndSentences(_)
RECURSIVE OrSentences(_)

UnarySentences(n) ==
    IF n < 1 THEN {}
    ELSE (IF n = 1 THEN {Sentence(<<t>>, Operand(t)) : t \in OperandTokens} ELSE {})
         \cup {Sentence(<<operationo_dict.NOT>> \o s.tokens, Not(s.expr)) :
                  s \in UnarySentences(n - 1)}
         \cup {Sentence(<<operationo_dict.LEFT_PARENTHESIS>> \o s.tokens
                            \o <<operationo_dict.RIGHT_PARENTHESIS>>, s.expr) :
                  s \in OrSentences(n - 2)}

AndSentences(n) ==
    UnarySentences(n)
        \cup UNION {{Sentence(l.tokens \o <<operationo_dict.AND>> \o r.tokens,
                              And(l.expr, r.expr)) :
                        l \in AndSentences(k), r \in UnarySentences(n - 1 - k)} :
                    k \in 1..(n - 2)}

OrSentences(n) ==
    AndSentences(n)
        \cup UNION {{Sentence(l.tokens \o <<operationo_dict.OR>> \o r.tokens,
                              Or(l.expr, r.expr)) :
                        l \in OrSentences(k), r \in AndSentences(n - 1 - k)} :
                    k \in 1..(n - 2)}

Sentences == UNION {OrSentences(n) : n \in 1..MaxSentence}

InitSentence ==
    /\ self_logs = <<>>
    /\ pc = "start"
    /\ \E s \in Sentences, log \in EvalLines, ci \in BOOLEAN :
          args = EvalArgs(s.tokens, log, 0, ci, s.expr)
    /\ ret = NoValue
    /\ exc = "none"
    /\ attempts = 0
    /\ trace = <<>>

SpecSentence == InitSentence /\ [][Evaluate]_vars

\* --------------------- _evaluate_tokens on sentences with unclosed groups

\* The number of right parentheses a token sequence ends with.
RECURSIVE TrailingRights(_)
TrailingRights(toks) ==
    IF toks # <<>> /\ toks[Len(toks)] = operationo_dict.RIGHT_PARENTHESIS
    THEN 1 + TrailingRights(SubSeq(toks, 1, Len(toks) - 1))
    ELSE 0

\* The sentences of the grammar with one or more of their final right
\* parentheses left out: their only defect is a left parenthesis that is never
\* closed. Each keeps the expression of the sentence it was cut from.
UnclosedSentences ==
    UNION {{Sentence(SubSeq(s.tokens, 1, Len(s.tokens) - k), s.expr) :
               k \in 1..TrailingRights(s.tokens)} :
           s \in Sentences}

InitUnclosed ==
    /\ self_logs = <<>>
    /\ pc = "start"
    /\ \E s \in UnclosedSentences, log \in EvalLines, ci \in BOOLEAN :
          args = EvalArgs(s.tokens, log, 0, ci, s.expr)
    /\ ret = NoValue
    /\ exc = "none"
    /\ attempts = 0
    /\ trace = <<>>

SpecUnclosed == InitUnclosed /\ [][Evaluate]_vars

\* ------------------------------------------------------------------- retry

\* calculate_exponential_backoff: the delays it may return (random.uniform
\* draws any value between its bounds; delays are whole numbers here).
Between(a, b) == Min(a, b)..Max(a, b)

RECURSIVE Power(_, _)
Power(base, e) == IF e = 0 THEN 1 ELSE base * Power(base, e - 1)

calculate_exponential_backoff(base_delay, attempt, backoff_factor, max_delay, jitter) ==
    LET delay  == base_delay * Power(backoff_factor, attempt - 1)
        capped == IF max_delay # None THEN Min(delay, max_delay[1]) ELSE delay
    IN  IF jitter THEN Between(0, capped) ELSE {capped}

\* Lines 59-60: random.uniform(*random_delay_range) if the range is given, else
\* delay.
base_delays(cfg) ==
    IF cfg.random_delay_range # None
    THEN Between(cfg.random_delay_range[1], cfg.random_delay_range[2])
    ELSE {cfg.delay}

\* The callback given as custom_delay_callback: the delay for an attempt.
custom_delay_callback(attempt) == attempt - 1

\* Lines 62-80: the delays the handler may come to sleep after the attempt
\* numbered attempt; the empty set when it raises ValueError instead.
final_delays(cfg, attempt) ==
    IF cfg.delay_mode = "normal" THEN base_delays(cfg)
    ELSE IF cfg.delay_mode = "exponential"
    THEN UNION {calculate_exponential_backoff(b, attempt, cfg.backoff_factor,
                                              cfg.max_backoff_delay, cfg.jitter) :
                   b \in base_delays(cfg)}
    ELSE IF cfg.delay_mode = "custom" /\ cfg.custom_delay_callback # "None"
    THEN {custom_delay_callback(attempt)}
    ELSE {}

\* The ValueError of lines 76-80.
delay_mode_error(cfg) ==
    IF cfg.delay_mode = "custom"
    THEN "ValueError: Custom delay mode requires a custom delay callback"
    ELSE "ValueError: Invalid delay mode"

\* An event of the trace: an invocation of func with how it ended, or a sleep.
Call(attempt, outcome) ==
    [kind |-> "call", attempt |-> attempt, outcome |-> outcome, delay |-> 0]
Sleep(delay) ==
    [kind |-> "sleep", attempt |-> 0, outcome |-> "slept", delay |-> delay]

\* What func returned at an attempt, and the exceptions in flight.
ResultOf(attempt) == [kind |-> "result", attempt |-> attempt]
NoException == [kind |-> "none", attempt |-> 0]
FuncError(attempt) == [kind |-> "func Exception", attempt |-> attempt]
FuncBaseError(attempt) == [kind |-> "func BaseException", attempt |-> attempt]
ResultCheckError(attempt) ==
    [kind |-> "ValueError: Retry triggered by result check", attempt |-> attempt]
DelayModeError(cfg, attempt) == [kind |-> delay_mode_error(cfg), attempt |-> attempt]

\* The decorator's parameters.
BackoffFactor == 2

RetryConfigs ==
    [should_retry_on_exception : {"None", "fn"},
     \* what should_retry_on_exception answers for the ValueError of line 44
     retries_result_error      : BOOLEAN,
     should_retry_on_result    : {"None", "fn"},
     max_attempts              : 0..MaxAttempts,
     delay_mode                : {"normal", "exponential", "custom", "other"},
     delay                     : {1},
     random_delay_range        : {None, <<0, 1>>},
     backoff_factor            : {BackoffFactor},
     max_backoff_delay         : {None, Some(1)},
     jitter                    : BOOLEAN,
     custom_delay_callback     : {"None", "fn"}]

InitRetry ==
    /\ self_logs = <<>>
    /\ pc = "loop"
    /\ args \in {cfg \in RetryConfigs :
                    cfg.should_retry_on_exception = "None" => cfg.retries_result_error}
    /\ ret = NoValue
    /\ exc = NoException
    /\ attempts = 0
    /\ trace = <<>>

\* The wrapper ends by raising e.
Raise(e, events) ==
    /\ pc' = "raised"
    /\ exc' = e
    /\ trace' = trace \o events
    /\ UNCHANGED ret

\* HandleException sleeping after the last attempt as well.
HandleException_sleeps_after_last(e, retry_ok, call) ==
    IF args.should_retry_on_exception # "None" /\ ~retry_ok
    THEN Raise(e, <<call>>)
    ELSE IF attempts' <= args.max_attempts
    THEN IF final_delays(args, attempts') = {}
         THEN Raise(DelayModeError(args, attempts'), <<call>>)
         ELSE \E d \in final_delays(args, attempts') :
                 /\ trace' = trace \o <<call, Sleep(d)>>
                 /\ pc' = "loop"
                 /\ UNCHANGED <<ret, exc>>
    ELSE Raise(e, <<call>>)

\* Lines 51-92: the except clause for the exception e of the attempt just made
\* (attempts' counts it), for which should_retry_on_exception answers retry_ok.
HandleException(e, retry_ok, call) ==
    IF args.should_retry_on_exception # "None" /\ ~retry_ok
    THEN Raise(e, <<call>>)
    ELSE IF attempts' < args.max_attempts
    THEN IF final_delays(args, attempts') = {}
         THEN Raise(DelayModeError(args, attempts'), <<call>>)
         ELSE \E d \in final_delays(args, attempts') :
                 /\ trace' = trace \o <<call, Sleep(d)>>
                 /\ pc' = "loop"
                 /\ UNCHANGED <<ret, exc>>
    ELSE Raise(e, <<call>>)

\* An iteration in which func returns a result that is not to be retried:
\* lines 36-50.
AttemptReturns ==
    /\ pc = "loop"
    /\ attempts < args.max_attempts
    /\ attempts' = attempts + 1
    /\ ret' = ResultOf(attempts')
    /\ trace' = Append(trace, Call(attempts', "returned"))
    /\ pc' = "returned"
    /\ UNCHANGED <<self_logs, args, exc>>

\* An iteration in which should_retry_on_result is given and returns True for
\* the result: lines 40-44, then the except clause.
AttemptRejected ==
    /\ pc = "loop"
    /\ attempts < args.max_attempts
    /\ args.should_retry_on_result = "fn"
    /\ attempts' = attempts + 1
    /\ HandleException(ResultCheckError(attempts'), args.retries_result_error,
                       Call(attempts', "rejected"))
    /\ UNCHANGED <<self_logs, args>>

\* An iteration in which func raises an Exception, for which
\* should_retry_on_exception (when given) answers either way.
AttemptRaises ==
    /\ pc = "loop"
    /\ attempts < args.max_attempts
    /\ attempts' = attempts + 1
    /\ \E retry_ok \in IF args.should_retry_on_exception = "None"
                       THEN {TRUE} ELSE BOOLEAN :
          HandleException(FuncError(attempts'), retry_ok,
                          Call(attempts', IF retry_ok THEN "raised"
                                          ELSE "raised, not to be retried"))
    /\ UNCHANGED <<self_logs, args>>

\* An iteration in which func raises a BaseException that is no Exception
\* (KeyboardInterrupt, SystemExit): "except Exception" lets it pass.
AttemptRaisesBase ==
    /\ pc = "loop"
    /\ attempts < args.max_attempts
    /\ attempts' = attempts + 1
    /\ Raise(FuncBaseError(attempts'), <<Call(attempts', "raised BaseException")>>)
    /\ UNCHANGED <<self_logs, args>>

\* The while condition fails: the wrapper falls off the loop and returns None.
LoopExit ==
    /\ pc = "loop"
    /\ ~(attempts < args.max_attempts)
    /\ pc' = "returned"
    /\ ret' = None
    /\ UNCHANGED <<self_logs, args, exc, attempts, trace>>

NextRetry ==
    \/ AttemptReturns
    \/ AttemptRejected
    \/ AttemptRaises
    \/ AttemptRaisesBase
    \/ LoopExit

SpecRetry == InitRetry /\ [][NextRetry]_vars

\* ================================================================== claims

\* The lines of the corpus the query selects: every line when the query has no
\* token, else the lines the evaluator returns True for.
MatchingLines(corpus, q, ci) ==
    IF q = <<>> \/ tokenize(q) = <<>> THEN corpus
    ELSE SelectSeq(corpus, LAMBDA l : evaluate_tokens(tokenize(q), l, 0, ci).result)

FirstN(s, n) == SubSeq(s, 1, Min(n, Len(s)))
LastN(s, n) == SubSeq(s, Len(s) - Min(n, Len(s)) + 1, Len(s))

CountOf(toks, k, tok) == Cardinality({i \in 1..k : toks[i] = tok})

\* Some right parenthesis of toks has no left parenthesis before it to match.
HasStrayRight(toks) ==
    \E k \in 1..Len(toks) :
        CountOf(toks, k, operationo_dict.RIGHT_PARENTHESIS)
            > CountOf(toks, k, operationo_dict.LEFT_PARENTHESIS)

\* C1 (as claimed): a top-level evaluation of a token sequence holding a right
\* parenthesis with no matching left parenthesis ends in the invalid-token
\* exception, never in a boolean.
C1_StrayRightAlwaysRaises ==
    (pc # "start" /\ args.pos = 0 /\ HasStrayRight(args.tokens))
        => exc = "Exception"

\* The call of the documented scenario: "error || warn", limit 2, descending.
ScenarioCall ==
    /\ pc # "idle"
    /\ args.before = ScenarioCorpus
    /\ args.query = QueryErrorOrWarn
    /\ args.limit = Some(2)
    /\ args.ordering = "desc"
    /\ ~args.enable_case_insensitive

\* C2 (as claimed): the scenario call returns
\* ["error: network down", "warn: disk slow"].
C2_ScenarioAsClaimed ==
    ScenarioCall =>
        /\ pc = "returned"
        /\ ret.items = <<LineErrorNetworkDown, LineWarnDiskSlow>>

\* C2 (amended): the scenario call returns the first two matching lines
\* reversed, ["warn: disk slow", "error: disk full"].
C2_ScenarioFirstTwoReversed ==
    ScenarioCall =>
        /\ pc = "returned"
        /\ ret.items = <<LineWarnDiskSlow, LineErrorDiskFull>>

C2_Witness == ScenarioCall /\ pc = "returned" /\ Len(ret.items) = 2

\* C3: a call that returns with a positive limit n gives, for 'asc', the last
\* min(n, m) of the m matching lines in corpus order and, for 'desc', the first
\* min(n, m) of them reversed, never more than n lines; with no limit it gives
\* all m matching lines in corpus order whatever the ordering.
C3_LimitAndOrdering ==
    pc = "returned" =>
        LET m == MatchingLines(args.before, args.query, args.enable_case_insensitive)
        IN  /\ (Truthy(args.limit) /\ args.ordering = "asc") =>
                   /\ ret.items = LastN(m, args.limit[1])
                   /\ Len(ret.items) = Min(args.limit[1], Len(m))
            /\ (Truthy(args.limit) /\ args.ordering = "desc") =>
                   /\ ret.items = Reverse(FirstN(m, args.limit[1]))
                   /\ Len(ret.items) = Min(args.limit[1], Len(m))
            /\ args.limit = None => ret.items = m

\* The limit cuts a descending result: three different matching lines, two kept.
C3_Witness ==
    /\ pc = "returned"
    /\ args.limit = Some(2)
    /\ args.ordering = "desc"
    /\ args.query # <<>>
    /\ Len(MatchingLines(args.before, args.query, args.enable_case_insensitive)) = 3
    /\ Len(ret.items) = 2
    /\ ret.items[1] # ret.items[2]

\* C9: no step of any sequence of query() calls changes the list stored in the
\* LogQuerier: it keeps the lines, in the order, it had at construction.
C9_CorpusNeverChanges == [][self_logs' = self_logs]_vars

\* An empty query with a limit and 'desc' returned a proper reversal, and the
\* stored corpus is what it was before the call.
C9_Witness ==
    /\ pc = "returned"
    /\ args.query = <<>>
    /\ args.ordering = "desc"
    /\ args.limit = Some(2)
    /\ Len(args.before) >= 2
    /\ ret.items = <<args.before[2], args.before[1]>>
    /\ args.before[1] # args.before[2]
    /\ self_logs = args.before

\* The query text trimmed of surrounding whitespace, then with every quote
\* marker removed.
NormalizedQueryText(q) == Replace(Strip(q), QUOTE_STRING, <<>>)

\* text is a substring of line, both lower-cased first when ci is set.
TextInLine(text, line, ci) ==
    IF ci THEN Contains(Lower(text), Lower(line)) ELSE Contains(text, line)

\* The lines of the corpus holding text as a substring, in corpus order.
LinesContaining(corpus, text, ci) ==
    SelectSeq(corpus, LAMBDA l : TextInLine(text, l, ci))

\* A call of query() with no limit whose query string holds no operator
\* occurrence.
NoOperatorCall ==
    /\ pc # "idle"
    /\ findall(args.query, 1) = <<>>
    /\ args.limit = None

\* C4 (as claimed): a call with no limit whose query holds no operator
\* occurrence raises nothing and returns exactly the lines containing the
\* trimmed, quote-stripped query text, in corpus order.
C4_NoOperatorQueryIsSubstringFilter ==
    NoOperatorCall =>
        /\ pc = "returned"
        /\ ret.items = LinesContaining(args.before, NormalizedQueryText(args.query),
                                       args.enable_case_insensitive)

\* A left-to-right reading of toks from the 1-based index i on, which tells
\* whether a term is expected at a token that is AND, OR or a right parenthesis.
\* A term is expected at the start, after AND, OR, NOT and a left parenthesis;
\* after a term an AND or OR is read, any other token closes the innermost open
\* group (depth counts the open groups) and, with no group open, ends the
\* reading.
RECURSIVE InvalidWhereTermExpected(_, _, _, _)
InvalidWhereTermExpected(toks, i, depth, term_expected) ==
    IF i > Len(toks) THEN FALSE
    ELSE IF term_expected
    THEN IF toks[i] = operationo_dict.LEFT_PARENTHESIS
         THEN InvalidWhereTermExpected(toks, i + 1, depth + 1, TRUE)
         ELSE IF toks[i] = operationo_dict.NOT
         THEN InvalidWhereTermExpected(toks, i + 1, depth, TRUE)
         ELSE IF toks[i] \in {operationo_dict.AND, operationo_dict.OR,
                              operationo_dict.RIGHT_PARENTHESIS}
         THEN TRUE
         ELSE InvalidWhereTermExpected(toks, i + 1, depth, FALSE)
    ELSE IF toks[i] \in {operationo_dict.AND, operationo_dict.OR}
         THEN InvalidWhereTermExpected(toks, i + 1, depth, TRUE)
         ELSE IF depth > 0
         THEN InvalidWhereTermExpected(toks, i + 1, depth - 1, FALSE)
         ELSE FALSE

\* Corpora of one or two lines that hold the line log.
CorporaWith(log) == {<<log>>} \cup {<<l, log>> : l \in EvalLines}

\* C5: an evaluation ends in the invalid-token exception exactly when the
\* token sequence has AND, OR or a right parenthesis where a term is expected;
\* the same holds against every other line and with either case flag, so the
\* failure depends on the tokens alone; and query(), given these tokens and a
\* corpus of at least one line, raises as well instead of returning a list.
C5_InvalidTokenDependsOnTokensOnly ==
    pc # "start" =>
        LET bad == InvalidWhereTermExpected(args.tokens, args.pos + 1, 0, TRUE)
        IN  /\ (exc = "Exception") = bad
            /\ \A log \in EvalLines, ci \in BOOLEAN :
                   evaluate_tokens(args.tokens, log, args.pos, ci).raised = bad
            /\ (args.pos = 0 /\ args.tokens # <<>>) =>
                   \A corpus \in CorporaWith(args.log), ordering \in Orderings :
                       query_tokens(corpus, args.tokens, None, ordering,
                                    args.enable_case_insensitive).raised = bad

\* The tokens of `a && || b` raised against a line on which the first operand
\* is false.
C5_Witness ==
    /\ pc = "raised"
    /\ args.pos = 0
    /\ args.tokens = <<<<"a">>, operationo_dict.AND, operationo_dict.OR, <<"B">>>>
    /\ args.log = <<"b">>

\* The tokens query() works on.
TokensOf(q) == IF q = <<>> THEN <<>> ELSE tokenize(q)

\* C6: a term expected at or beyond the end of the tokens is false, leaves the
\* position unchanged and raises nothing, against every line of the corpus; so
\* a query of an operand and a trailing AND (`a &&`) returns no line and raises
\* nothing, and a query of an operand and a trailing OR (`a ||`) returns, with
\* no limit, exactly the lines containing the operand.
C6_ExhaustedTermIsFalse ==
    pc # "idle" =>
        LET toks == TokensOf(args.query)
            ci   == args.enable_case_insensitive
        IN  /\ \A i \in 1..Len(args.before), p \in {Len(toks), Len(toks) + 1} :
                   eval_next(toks, args.before[i], ci, p) = Returned(FALSE, p)
            /\ (Len(toks) = 2 /\ toks[1] \notin OperatorTokens
                    /\ toks[2] = operationo_dict.AND) =>
                   /\ pc = "returned"
                   /\ ret.items = <<>>
            /\ (Len(toks) = 2 /\ toks[1] \notin OperatorTokens
                    /\ toks[2] = operationo_dict.OR /\ args.limit = None) =>
                   /\ pc = "returned"
                   /\ ret.items = LinesContaining(args.before, toks[1], ci)

\* `a &&` returned nothing on a corpus that has lines containing a.
C6_Witness ==
    /\ pc = "returned"
    /\ args.query = QueryTrailingAnd
    /\ args.before = SmallCorpus
    /\ args.limit = None
    /\ LinesContaining(args.before, <<"a">>, args.enable_case_insensitive) # <<>>
    /\ ret.items = <<>>

\* The boolean value of an expression on a line.
RECURSIVE Value(_, _, _)
Value(expr, line, ci) ==
    IF expr[1] = "operand" THEN TextInLine(expr[2], line, ci)
    ELSE IF expr[1] = "not" THEN ~Value(expr[2], line, ci)
    ELSE IF expr[1] = "and" THEN Value(expr[2], line, ci) /\ Value(expr[3], line, ci)
    ELSE Value(expr[2], line, ci) \/ Value(expr[3], line, ci)

\* C7: evaluating a well-formed sentence of the grammar from position 0 raises
\* nothing, consumes the whole sequence and returns the boolean value of the
\* expression the sentence stands for (OR lowest, then AND, both
\* left-associative, NOT on the one following unary term, parentheses around an
\* OR-expression).
C7_SentenceValue ==
    (pc # "start" /\ args.expr # NoExpr) =>
        /\ pc = "returned"
        /\ ret.result = Value(args.expr, args.log, args.enable_case_insensitive)
        /\ ret.next_pos = Len(args.tokens)

\* `a && ((a || B))` on the line "B": false, where (a && a) || B would be true.
C7_Witness ==
    /\ pc = "returned"
    /\ args.tokens = <<<<"a">>, operationo_dict.AND, operationo_dict.LEFT_PARENTHESIS,
                       <<"a">>, operationo_dict.OR, <<"B">>,
                       operationo_dict.RIGHT_PARENTHESIS>>
    /\ args.expr = And(Operand(<<"a">>), Or(Operand(<<"a">>), Operand(<<"B">>)))
    /\ args.log = <<"B">>
    /\ ~args.enable_case_insensitive
    /\ ret = [result |-> FALSE, next_pos |-> 7]

\* A left-to-right scan of the query from the 1-based index i, with the text
\* pending since index start: the operator occurrences, each preceded by the
\* text before it, and the text after the last one.
ScanItem(is_operator, text) == [is_operator |-> is_operator, text |-> text]

RECURSIVE ScanFrom(_, _, _)
ScanFrom(q, i, start) ==
    IF i > Len(q) THEN <<ScanItem(FALSE, SubSeq(q, start, Len(q)))>>
    ELSE IF i < Len(q) /\ SubSeq(q, i, i + 1) \in OperatorTokens
    THEN <<ScanItem(FALSE, SubSeq(q, start, i - 1)),
           ScanItem(TRUE, SubSeq(q, i, i + 1))>> \o ScanFrom(q, i + 2, i + 2)
    ELSE ScanFrom(q, i + 1, start)

TextsOf(items, is_operator) ==
    LET picked == SelectSeq(items, LAMBDA it : it.is_operator = is_operator)
    IN  [k \in 1..Len(picked) |-> picked[k].text]

\* The texts between the operator occurrences, each trimmed and with every
\* quote marker removed, those left empty dropped.
OperandTextsOf(q) ==
    LET texts == TextsOf(ScanFrom(q, 1, 1), FALSE)
    IN  SelectSeq([k \in 1..Len(texts) |-> NormalizedQueryText(texts[k])],
                  LAMBDA t : t # <<>>)

\* C8 (as claimed): _tokenize returns only non-empty tokens; its tokens equal
\* to an operator literal are exactly the operator occurrences of the scan, in
\* order and number; its other tokens are the normalized texts between them;
\* an empty query yields no token.
C8_TokensAreScanOccurrences ==
    pc = "done" =>
        /\ \A k \in 1..Len(ret) : ret[k] # <<>>
        /\ SelectSeq(ret, LAMBDA t : t \in OperatorTokens)
               = TextsOf(ScanFrom(args.query, 1, 1), TRUE)
        /\ SelectSeq(ret, LAMBDA t : t \notin OperatorTokens)
               = SelectSeq(OperandTextsOf(args.query), LAMBDA t : t \notin OperatorTokens)
        /\ (args.query = <<>> => ret = <<>>)


\* ---------------------------------------------------------------- C10

\* The invocations of func made so far, and whether the call of the wrapper
\* is over.
Calls == {i \in DOMAIN trace : trace[i].kind = "call"}
Invocations == Cardinality(Calls)
Finished == pc \in {"returned", "raised"}
FailedOutcomes == {"raised", "rejected", "raised, not to be retried", "raised BaseException"}

\* The trace is call (sleep call)*: the attempts are numbered from 1 in order,
\* one sleep stands between every two consecutive attempts and none after
\* the last.
SleepsOnlyBetweenAttempts ==
    /\ Len(trace) = 2 * Invocations - 1
    /\ \A i \in DOMAIN trace :
          IF i % 2 = 1
          THEN trace[i].kind = "call" /\ trace[i].attempt = (i + 1) \div 2
          ELSE trace[i].kind = "sleep" /\ trace[i].delay >= 0

\* A return hands back the result of the last invocation, the first one that
\* neither raised nor was rejected.
ReturnsFirstGoodResult ==
    pc = "returned" =>
        /\ trace[Len(trace)].outcome = "returned"
        /\ \A i \in Calls : i < Len(trace) => trace[i].outcome \in FailedOutcomes
        /\ ret = ResultOf(Invocations)

\* The exception of the last attempt: the one func raised, or the ValueError
\* of the result check.
LastAttemptException ==
    LET outcome == trace[Len(trace)].outcome
    IN  IF outcome = "rejected" THEN ResultCheckError(Invocations)
        ELSE IF outcome = "raised BaseException" THEN FuncBaseError(Invocations)
        ELSE FuncError(Invocations)

\* should_retry_on_exception is given and returned False for the exception
\* of the last attempt.
LastAttemptNotToBeRetried ==
    /\ args.should_retry_on_exception = "fn"
    /\ \/ trace[Len(trace)].outcome = "raised, not to be retried"
       \/ trace[Len(trace)].outcome = "rejected" /\ ~args.retries_result_error

NotToBeRetried(i) ==
    \/ trace[i].outcome = "raised, not to be retried"
    \/ /\ trace[i].outcome = "rejected"
       /\ args.should_retry_on_exception = "fn"
       /\ ~args.retries_result_error

\* The exception of the call at index i of the trace.
ExceptionOf(i) ==
    IF trace[i].outcome = "rejected" THEN ResultCheckError(trace[i].attempt)
    ELSE FuncError(trace[i].attempt)

\* C11: once the call is over, every attempt whose result should_retry_on_result
\* rejected and that was not the last allowed one was followed by another
\* invocation of func, whatever should_retry_on_exception is; and an attempt
\* for whose exception should_retry_on_exception returned False is the last
\* event of the trace (no invocation and no sleep after it) and its exception
\* is the one raised.
C11_RejectedResultIsRetried ==
    /\ Finished =>
          \A i \in Calls :
              (trace[i].outcome = "rejected" /\ trace[i].attempt < args.max_attempts)
                  => \E j \in Calls : trace[j].attempt = trace[i].attempt + 1
    /\ \A i \in Calls :
          NotToBeRetried(i) =>
              /\ i = Len(trace)
              /\ pc = "raised"
              /\ exc = ExceptionOf(i)

\* ---------------------------------------------------------------- C12

\* How many of the tokens are equal to the token t.
Occurrences(toks, t) == Cardinality({i \in DOMAIN toks : toks[i] = t})

\* The left parentheses of a token sequence that are never closed.
Unclosed(toks) ==
    Occurrences(toks, operationo_dict.LEFT_PARENTHESIS)
        - Occurrences(toks, operationo_dict.RIGHT_PARENTHESIS)

\* C12: evaluating, from position 0, a token sequence whose only defect is one
\* or more unclosed left parentheses raises nothing, subscripts tokens only
\* at indices below its length, and returns the value of the expression in
\* which every unclosed group extends to the end of the sequence; the position
\* handed back lies beyond the length, by one for each unclosed group.
C12_UnclosedGroupRunsToEnd ==
    (pc # "start" /\ args.expr # NoExpr /\ Unclosed(args.tokens) > 0) =>
        /\ pc = "returned"
        /\ ret.result = Value(args.expr, args.log, args.enable_case_insensitive)
        /\ ret.next_pos = Len(args.tokens) + Unclosed(args.tokens)
        /\ reads_or(args.tokens, args.log, args.enable_case_insensitive, args.pos)
               \subseteq 0..(Len(args.tokens) - 1)

\* `((a || B` on the line "B": true as a or B, with the position handed back
\* one beyond the four tokens.
C12_Witness ==
    /\ pc = "returned"
    /\ args.tokens = <<operationo_dict.LEFT_PARENTHESIS, <<"a">>,
                       operationo_dict.OR, <<"B">>>>
    /\ args.expr = Or(Operand(<<"a">>), Operand(<<"B">>))
    /\ args.log = <<"B">>
    /\ ret = [result |-> TRUE, next_pos |-> 5]

====
